---- MODULE Spec2Model ----
(***************************************************************************)
(* Model of src/app/api/v1/hackrx/run/route.ts: the POST handler that      *)
(* answers questions about a PDF, and its helpers chunkText,               *)
(* cosineSimilarity, findRelevantChunks and getEmbeddings.                 *)
(*                                                                         *)
(* A JavaScript string is a sequence of one-character strings.  A thrown   *)
(* Error is a record [ok |-> FALSE, err |-> message]; a normal return is   *)
(* [ok |-> TRUE, val |-> value].                                           *)
(***************************************************************************)
EXTENDS Integers, Sequences, FiniteSets, TLC

VARIABLES
  pc,               \* per request: the await the handler is suspended at, or "done"
  input,            \* per request: what req.json() yields
  fullText,         \* per request: let fullText
  chunks,           \* per request: let chunks
  chunkEmbeddings,  \* per request: let chunkEmbeddings
  results,          \* per request: const results
  qi,               \* per request: the position of the for loop in questions
  emb,              \* per request: the running getEmbeddings call (i, embeddings)
  response,         \* per request: <<>> until the handler returns its response
  calls,            \* per request: history of the calls to the collaborators
  fnArgs,           \* the arguments of a helper called on its own
  fnRet             \* <<>> until that helper has returned or thrown, then <<result>>

reqVars == <<pc, input, fullText, chunks, chunkEmbeddings, results, qi, emb, response, calls>>
fnVars == <<fnArgs, fnRet>>
vars == <<pc, input, fullText, chunks, chunkEmbeddings, results, qi, emb, response, calls,
          fnArgs, fnRet>>

(***************************************************************************)
(* Bounds of the model and constants of the program.                       *)
(***************************************************************************)
MaxTextLen == 4          \* longest text given to chunkText on its own
MaxMaxWords == 3         \* largest maxWords given to chunkText on its own
MaxDocs == 4             \* most chunks given to findRelevantChunks on its own
MaxTopK == 5             \* topK given to findRelevantChunks ranges over -1..MaxTopK
MaxQuestions == 3        \* most questions in one request
MaxTexts == 21           \* most texts given to getEmbeddings on its own
MaxConcQuestions == 1    \* most questions of each of two concurrent requests
MaxDim == 2              \* longest vector given to cosineSimilarity on its own

ChunkWords == 500        \* chunkText(fullText, 500)
DefaultTopK == 3         \* topK: number = 3
FallbackTopK == 3        \* Math.min(3, docChunks.length)
PauseMs == 200           \* setTimeout(resolve, 200)
BatchSize == 10          \* const batchSize = 10

\* The characters /\s/ matches, among the characters of the model.
Whitespace == {" ", "\n"}
Letters == {"a", "b"}
Chars == Letters \cup Whitespace

Throw(msg) == [ok |-> FALSE, err |-> msg]
Return(v) == [ok |-> TRUE, val |-> v]

Min(a, b) == IF a <= b THEN a ELSE b

(***************************************************************************)
(* String.prototype.split(/\s+/), String.prototype.trim, Array.join(" ").  *)
(***************************************************************************)
\* split(/\s+/) of the characters lo..hi of text, lo <= hi, by halving: a run of
\* whitespace is one separator, so whitespace at an end of the range leaves an
\* empty string there, and where two halves meet the last piece of the left half
\* and the first of the right are one piece (dropped when a separator run spans
\* the middle).
RECURSIVE SplitRange(_, _, _)
SplitRange(text, lo, hi) ==
  IF lo = hi
  THEN IF text[lo] \in Whitespace THEN << <<>>, <<>> >> ELSE << <<text[lo]>> >>
  ELSE LET mid == (lo + hi) \div 2
           L == SplitRange(text, lo, mid)
           R == SplitRange(text, mid + 1, hi)
           joint == L[Len(L)] \o R[1]
           front == SubSeq(L, 1, Len(L) - 1)
           back == SubSeq(R, 2, Len(R))
       IN  IF joint = <<>> THEN front \o back ELSE front \o <<joint>> \o back

\* "".split(/\s+/) is [""].
Split(text) == IF text = <<>> THEN << <<>> >> ELSE SplitRange(text, 1, Len(text))

\* words[lo..hi].join(" "), lo <= hi, by halving.
RECURSIVE JoinRange(_, _, _)
JoinRange(words, lo, hi) ==
  IF lo = hi THEN words[lo]
  ELSE LET mid == (lo + hi) \div 2
       IN  JoinRange(words, lo, mid) \o <<" ">> \o JoinRange(words, mid + 1, hi)

\* [].join(" ") is "".
Join(words) == IF words = <<>> THEN <<>> ELSE JoinRange(words, 1, Len(words))

RECURSIVE TrimStart(_)
TrimStart(s) ==
  IF s # <<>> /\ s[1] \in Whitespace THEN TrimStart(Tail(s)) ELSE s

RECURSIVE TrimEnd(_)
TrimEnd(s) ==
  IF s # <<>> /\ s[Len(s)] \in Whitespace THEN TrimEnd(SubSeq(s, 1, Len(s) - 1)) ELSE s

\* trim with a defect: nothing is stripped (the string is tested as it is).
trimNothing(s) == s

trim(s) == TrimEnd(TrimStart(s))

\* The characters lo..hi of chars, lo <= hi, as one string, by halving.
RECURSIVE TextRange(_, _, _)
TextRange(chars, lo, hi) ==
  IF lo = hi THEN chars[lo]
  ELSE LET mid == (lo + hi) \div 2
       IN  TextRange(chars, lo, mid) \o TextRange(chars, mid + 1, hi)

\* How the state of a request holds a long JavaScript string (the extracted
\* text, a chunk): its characters as one string.
Text(chars) == IF chars = <<>> THEN "" ELSE TextRange(chars, 1, Len(chars))

\* Text of each of strings[k..], in order.
RECURSIVE TextsFrom(_, _)
TextsFrom(strings, k) ==
  IF k > Len(strings) THEN <<>>
  ELSE <<Text(strings[k])>> \o TextsFrom(strings, k + 1)

(***************************************************************************)
(* chunkText                                                               *)
(***************************************************************************)
\* ChunkWindows with a defect: the loop starts at i = maxWords, and the first
\* window is lost.
ChunkWindowsSkipFirst(words, maxWords) ==
  [k \in 1..(((Len(words) + maxWords - 1) \div maxWords) - 1) |->
     Join(SubSeq(words, k * maxWords + 1, Min((k + 1) * maxWords, Len(words))))]

\* words.slice(i, i + maxWords).join(" ") for i = 0, maxWords, 2*maxWords, ...
ChunkWindows(words, maxWords) ==
  [k \in 1..((Len(words) + maxWords - 1) \div maxWords) |->
     Join(SubSeq(words, (k - 1) * maxWords + 1, Min(k * maxWords, Len(words))))]

chunkText(text, maxWords) ==
  IF text = <<>> THEN Throw("Invalid input: text must be a non-empty string")
  ELSE IF maxWords <= 0 THEN Throw("Invalid input: maxWords must be a positive number")
  ELSE Return(ChunkWindows(Split(text), maxWords))

(***************************************************************************)
(* cosineSimilarity                                                        *)
(***************************************************************************)
RECURSIVE GCD(_, _)
GCD(a, b) == IF b = 0 THEN a ELSE GCD(b, a % b)

\* a.reduce((sum, val, i) => sum + val * b[i], 0)
RECURSIVE DotFrom(_, _, _)
DotFrom(a, b, i) == IF i > Len(a) THEN 0 ELSE a[i] * b[i] + DotFrom(a, b, i + 1)

Dot(a, b) == DotFrom(a, b, 1)

\* a.reduce((sum, val) => sum + val * val, 0): the square of the magnitude.
SumSquares(a) == Dot(a, a)

\* The real number dot / (magA * magB), with magA * magB = sqrt(sqA * sqB), is
\* held exactly as the fraction sign(dot) * dot^2 / (sqA * sqB) in lowest terms:
\* x |-> sign(x) * x^2 is strictly increasing, so two scores are equal, or
\* ordered, exactly as the reals they stand for (rounding of the double-precision
\* arithmetic is not modelled).
Score(dot, sq) ==
  LET g == GCD(dot * dot, sq)
  IN  [num |-> (IF dot < 0 THEN -1 ELSE 1) * ((dot * dot) \div g), den |-> sq \div g]

\* b.score - a.score, as its sign.
ScoreDiff(b, a) ==
  LET d == b.num * a.den - a.num * b.den
  IN  IF d > 0 THEN 1 ELSE IF d < 0 THEN -1 ELSE 0

\* cosineSimilarity with a defect: only the magnitude of a is tested, and a zero
\* magnitude of b is taken for a similarity of 0.
cosineSimilarityZeroB(a, b) ==
  IF Len(a) = 0 \/ Len(b) = 0
  THEN Throw("Invalid input: vectors must be non-empty arrays")
  ELSE IF Len(a) # Len(b) THEN Throw("Vectors must have the same length")
  ELSE IF SumSquares(a) = 0
  THEN Throw("Invalid vectors: magnitude cannot be zero")
  ELSE IF SumSquares(b) = 0 THEN Return(Score(0, 1))
  ELSE Return(Score(Dot(a, b), SumSquares(a) * SumSquares(b)))

cosineSimilarity(a, b) ==
  IF Len(a) = 0 \/ Len(b) = 0
  THEN Throw("Invalid input: vectors must be non-empty arrays")
  ELSE IF Len(a) # Len(b) THEN Throw("Vectors must have the same length")
  ELSE IF SumSquares(a) = 0 \/ SumSquares(b) = 0
  THEN Throw("Invalid vectors: magnitude cannot be zero")
  ELSE Return(Score(Dot(a, b), SumSquares(a) * SumSquares(b)))

(***************************************************************************)
(* findRelevantChunks                                                      *)
(***************************************************************************)
\* The comparator of the sort: (a, b) => b.score - a.score.
Compare(a, b) == ScoreDiff(b.score, a.score)

\* InsertSorted with a defect: an element goes before the elements it ties with.
InsertSortedUnstable(sorted, e) ==
  LET after == {p \in 1..Len(sorted) : Compare(e, sorted[p]) <= 0}
      at == IF after = {} THEN Len(sorted) + 1
            ELSE CHOOSE p \in after : \A r \in after : p <= r
  IN  SubSeq(sorted, 1, at - 1) \o <<e>> \o SubSeq(sorted, at, Len(sorted))

\* Array.prototype.sort is stable: an element goes before the first element the
\* comparator puts strictly after it, and so after every element it ties with.
InsertSorted(sorted, e) ==
  LET after == {p \in 1..Len(sorted) : Compare(e, sorted[p]) < 0}
      at == IF after = {} THEN Len(sorted) + 1
            ELSE CHOOSE p \in after : \A r \in after : p <= r
  IN  SubSeq(sorted, 1, at - 1) \o <<e>> \o SubSeq(sorted, at, Len(sorted))

RECURSIVE SortFrom(_, _, _)
SortFrom(items, i, sorted) ==
  IF i > Len(items) THEN sorted
  ELSE SortFrom(items, i + 1, InsertSorted(sorted, items[i]))

Sort(items) == SortFrom(items, 1, <<>>)

\* ClampTopK with a defect: only a topK beyond the chunks is reset.
ClampTopKUpper(topK, n) ==
  IF topK > n THEN Min(FallbackTopK, n) ELSE topK

\* if (topK <= 0 || topK > docChunks.length) topK = Math.min(3, docChunks.length)
ClampTopK(topK, n) ==
  IF topK <= 0 \/ topK > n THEN Min(FallbackTopK, n) ELSE topK

\* Array.prototype.slice(0, end), end an integer: a negative end counts from the
\* end of the array.
SliceTo(items, end) ==
  LET e == IF end < 0 THEN (IF Len(items) + end < 0 THEN 0 ELSE Len(items) + end)
           ELSE Min(end, Len(items))
  IN  SubSeq(items, 1, e)

\* docEmbeddings.map((embedding, index) => ({index, score: cosineSimilarity(...)}))
\* from embedding i on, similarities holding the entries made so far: the first
\* cosineSimilarity that throws ends the map.  index counts from 1 here.
RECURSIVE SimilaritiesFrom(_, _, _, _)
SimilaritiesFrom(queryEmbedding, docEmbeddings, i, similarities) ==
  IF i > Len(docEmbeddings) THEN Return(similarities)
  ELSE LET score == cosineSimilarity(queryEmbedding, docEmbeddings[i])
       IN  IF ~score.ok THEN score
           ELSE SimilaritiesFrom(queryEmbedding, docEmbeddings, i + 1,
                                 Append(similarities, [index |-> i, score |-> score.val]))

Similarities(queryEmbedding, docEmbeddings) ==
  SimilaritiesFrom(queryEmbedding, docEmbeddings, 1, <<>>)

\* similarities.sort(...).slice(0, topK).map(({ index }) => ...): the indices of
\* the selected chunks, in rank order.
RECURSIVE IndicesFrom(_, _)
IndicesFrom(top, r) ==
  IF r > Len(top) THEN <<>> ELSE <<top[r].index>> \o IndicesFrom(top, r + 1)

\* TopIndices with a defect: the sorted list is not cut to topK.
TopIndicesAll(similarities, topK) == IndicesFrom(Sort(similarities), 1)

TopIndices(similarities, topK) == IndicesFrom(SliceTo(Sort(similarities), topK), 1)

RECURSIVE PickFrom(_, _, _)
PickFrom(docChunks, indices, r) ==
  IF r > Len(indices) THEN <<>>
  ELSE <<docChunks[indices[r]]>> \o PickFrom(docChunks, indices, r + 1)

\* findRelevantChunks with a defect: the numbers of embeddings and of chunks are
\* not compared.
findRelevantChunksLenient(queryEmbedding, docEmbeddings, docChunks, topK) ==
  IF Len(queryEmbedding) = 0 THEN Throw("Invalid query embedding")
  ELSE IF Len(docEmbeddings) = 0 THEN Throw("Invalid document embeddings")
  ELSE IF Len(docChunks) = 0 THEN Throw("Invalid document chunks")
  ELSE LET similarities == Similarities(queryEmbedding, docEmbeddings)
       IN  IF ~similarities.ok THEN similarities
           ELSE Return(PickFrom(docChunks,
                                TopIndices(similarities.val, ClampTopK(topK, Len(docChunks))),
                                1))

findRelevantChunks(queryEmbedding, docEmbeddings, docChunks, topK) ==
  IF Len(queryEmbedding) = 0 THEN Throw("Invalid query embedding")
  ELSE IF Len(docEmbeddings) = 0 THEN Throw("Invalid document embeddings")
  ELSE IF Len(docChunks) = 0 THEN Throw("Invalid document chunks")
  ELSE IF Len(docEmbeddings) # Len(docChunks)
  THEN Throw("Number of embeddings must match number of chunks")
  ELSE LET similarities == Similarities(queryEmbedding, docEmbeddings)
       IN  IF ~similarities.ok THEN similarities
           ELSE Return(PickFrom(docChunks,
                                TopIndices(similarities.val, ClampTopK(topK, Len(docChunks))),
                                1))

(***************************************************************************)
(* JavaScript values of the request body.  A value is [t |-> type, v |->   *)
(* characters, items |-> elements]: v holds the characters of a string or  *)
(* of String(number), items the elements of an array.                      *)
(***************************************************************************)
Undefined == [t |-> "undefined", v |-> <<>>, items |-> <<>>]
Str(chars) == [t |-> "string", v |-> chars, items |-> <<>>]
Num(digits) == [t |-> "number", v |-> digits, items |-> <<>>]
Arr(items) == [t |-> "array", v |-> <<>>, items |-> items]

\* !x
Falsy(x) ==
  \/ x.t = "undefined"
  \/ x.t = "string" /\ x.v = <<>>
  \/ x.t = "number" /\ x.v = <<"0">>

\* Array.isArray(x)
IsArray(x) == x.t = "array"

(***************************************************************************)
(* getEmbeddings: the replies of openai.embeddings.create                  *)
(***************************************************************************)
\* What the service may do with a batch, of chunks (q = 0) or of a question:
\* fail, or return res.data.
EmbedModes(q) ==
  IF q = 0 THEN {"throw", "cycle", "short"} ELSE {"throw", "unit", "zero", "dim3"}

CycleVectors == << <<1, 0>>, <<0, 1>>, <<9, 1>> >>

\* res.data.map((d) => d.embedding) for a batch of n texts, the first of them
\* texts[from] (counting from 0).
ReplyVectors(mode, from, n) ==
  CASE mode = "unit"  -> [k \in 1..n |-> <<1, 0>>]
    [] mode = "cycle" -> [k \in 1..n |-> CycleVectors[((from + k - 1) % 3) + 1]]
    [] mode = "zero"  -> [k \in 1..n |-> <<0, 0>>]
    [] mode = "short" -> [k \in 1..(n - 1) |-> <<1, 0>>]
    [] mode = "dim3"  -> [k \in 1..n |-> <<1, 0, 0>>]

\* BatchLen with a defect: a batch is cut one text short of batchSize.
BatchLenOffByOne(n, i) == Min(BatchSize - 1, n - i)

\* texts.slice(i, i + batchSize).length
BatchLen(n, i) == Min(BatchSize, n - i)

\* A call to a collaborator, as the history keeps it: the service, the question
\* it is made for (0: none), the offset of the batch and the number of texts or
\* passages sent (for a pause: the milliseconds), and how it ended.
Call(svc, q, from, n) == [svc |-> svc, q |-> q, from |-> from, n |-> n, reply |-> "pending"]

\* The history with the reply of its last call filled in.
Replied(log, reply) == [log EXCEPT ![Len(log)].reply = reply]

(***************************************************************************)
(* POST                                                                    *)
(***************************************************************************)
ErrorResponse(status, message) ==
  [status |-> status, kind |-> "error", error |-> message, answers |-> <<>>]

\* NextResponse.json({ answers: results })
AnswersResponse(res) ==
  [status |-> 200, kind |-> "answers", error |-> <<>>, answers |-> res]

EmptyQuestion == <<"Error: Empty question provided">>

\* `Error: Failed to process the question: ${question}`
FailedQuestion(question) == <<"Error: Failed to process the question: ">> \o question.v

\* LoopFrom with a defect: a blank question is skipped without a result.
RECURSIVE LoopFromSkipBlank(_, _, _)
LoopFromSkipBlank(questions, k, res) ==
  IF k > Len(questions) THEN [k |-> k, results |-> res]
  ELSE LET question == questions[k]
       IN  IF question.t # "string"
           THEN LoopFromSkipBlank(questions, k + 1, Append(res, FailedQuestion(question)))
           ELSE IF trim(question.v) = <<>>
           THEN LoopFromSkipBlank(questions, k + 1, res)
           ELSE [k |-> k, results |-> res]

\* The for loop over questions from position k with results res, up to its next
\* await: a question that is no string makes question.trim() throw, which the
\* catch of the loop body turns into the error string; a blank question gets the
\* placeholder; the first other question stops the run at getEmbeddings.
RECURSIVE LoopFrom(_, _, _)
LoopFrom(questions, k, res) ==
  IF k > Len(questions) THEN [k |-> k, results |-> res]
  ELSE LET question == questions[k]
       IN  IF question.t # "string"
           THEN LoopFrom(questions, k + 1, Append(res, FailedQuestion(question)))
           ELSE IF trim(question.v) = <<>>
           THEN LoopFrom(questions, k + 1, Append(res, EmptyQuestion))
           ELSE [k |-> k, results |-> res]

Respond(r, resp) ==
  /\ pc' = [pc EXCEPT ![r] = "done"]
  /\ response' = [response EXCEPT ![r] = <<resp>>]

\* getEmbeddings(texts) up to its first await, called for the chunks (q = 0):
\* an empty texts throws, which its own catch turns into "Failed to generate
\* embeddings" and the catch of POST into the 500 response.
StartCorpusEmbeddings(r, texts, log) ==
  IF texts = <<>>
  THEN /\ Respond(r, ErrorResponse(500, <<"Failed to generate document embeddings.">>))
       /\ calls' = [calls EXCEPT ![r] = log]
       /\ UNCHANGED emb
  ELSE /\ pc' = [pc EXCEPT ![r] = "embedding"]
       /\ emb' = [emb EXCEPT ![r] = [q |-> 0, i |-> 0, embeddings |-> <<>>]]
       /\ calls' = [calls EXCEPT ![r] = Append(log, Call("embed", 0, 0, BatchLen(Len(texts), 0)))]
       /\ UNCHANGED response

\* ContinueLoop with a defect: results is one array of the module, which every
\* request pushes to.
ContinueLoopSharedResults(r, k, res, log) ==
  LET questions == input[r].questions.items
      at == LoopFrom(questions, k, res)
  IN  /\ results' = [s \in DOMAIN results |-> at.results]
      /\ qi' = [qi EXCEPT ![r] = at.k]
      /\ IF at.k > Len(questions)
         THEN /\ Respond(r, AnswersResponse(at.results))
              /\ calls' = [calls EXCEPT ![r] = log]
              /\ UNCHANGED emb
         ELSE /\ pc' = [pc EXCEPT ![r] = "embedding"]
              /\ emb' = [emb EXCEPT ![r] = [q |-> at.k, i |-> 0, embeddings |-> <<>>]]
              /\ calls' = [calls EXCEPT ![r] = Append(log, Call("embed", at.k, 0, 1))]
              /\ UNCHANGED response

\* The for loop from question k, with results res and history log, up to its next
\* await (getEmbeddings([question]), one text: never empty) or to the response.
ContinueLoop(r, k, res, log) ==
  LET questions == input[r].questions.items
      at == LoopFrom(questions, k, res)
  IN  /\ results' = [results EXCEPT ![r] = at.results]
      /\ qi' = [qi EXCEPT ![r] = at.k]
      /\ IF at.k > Len(questions)
         THEN /\ Respond(r, AnswersResponse(at.results))
              /\ calls' = [calls EXCEPT ![r] = log]
              /\ UNCHANGED emb
         ELSE /\ pc' = [pc EXCEPT ![r] = "embedding"]
              /\ emb' = [emb EXCEPT ![r] = [q |-> at.k, i |-> 0, embeddings |-> <<>>]]
              /\ calls' = [calls EXCEPT ![r] = Append(log, Call("embed", at.k, 0, 1))]
              /\ UNCHANGED response

\* EmbTexts with a defect: the chunks are embedded again with every question.
EmbTextsChunks(r) == chunks[r]

\* The texts of the running getEmbeddings call.
EmbTexts(r) ==
  IF emb[r].q = 0 THEN chunks[r] ELSE <<input[r].questions.items[emb[r].q].v>>

\* const { documents, questions } = await req.json(), and the validation of line
\* 20: the response that ends the request there, or <<>> when it goes on.  No
\* JSON makes req.json() throw and null makes the destructuring throw: both
\* reach the catch of line 133.
Validate(body) ==
  CASE body.kind = "unparsable" -> <<ErrorResponse(500, <<"Unexpected end of JSON input">>)>>
    [] body.kind = "null" ->
         <<ErrorResponse(500, <<"Cannot destructure property 'documents' of null">>)>>
    [] OTHER ->
         IF \/ Falsy(body.documents)
            \/ Falsy(body.questions)
            \/ ~IsArray(body.questions)
            \/ Len(body.questions.items) = 0
         THEN <<ErrorResponse(400,
                  <<"Invalid request. Please provide documents URL and questions array.">>)>>
         ELSE <<>>

\* await req.json() returns or throws; then the validation, and the fetch starts.
ReadBody(r) ==
  /\ pc[r] = "body"
  /\ UNCHANGED <<input, fullText, chunks, chunkEmbeddings, results, qi, emb, fnArgs, fnRet>>
  /\ IF Validate(input[r]) # <<>>
     THEN /\ Respond(r, Validate(input[r])[1])
          /\ UNCHANGED calls
     ELSE /\ pc' = [pc EXCEPT ![r] = "fetch"]
          /\ calls' = [calls EXCEPT ![r] = Append(@, Call("fetch", 0, 0, 0))]
          /\ UNCHANGED response

\* The catch of lines 64-70.
FetchFailed(detail) ==
  ErrorResponse(500, <<"Failed to fetch or parse the PDF document: ", detail>>)

\* What fetch may do: fail, or return a response with a status and a content type.
FetchOutcomes == {"network error", "404 text/html", "200 text/html", "200 none", "200 application/pdf"}

\* pdfRes.ok
ResponseOk(outcome) == outcome \in {"200 text/html", "200 none", "200 application/pdf"}

\* IsPdfContentType with a defect: the content type is not looked at.
IsPdfContentTypeAny(outcome) == TRUE

\* contentType?.includes('application/pdf')
IsPdfContentType(outcome) == outcome = "200 application/pdf"

\* await fetch(documents, ...) returns or throws; the status and the content type
\* are checked, and the body is asked for.
Fetch(r) ==
  /\ pc[r] = "fetch"
  /\ UNCHANGED <<input, fullText, chunks, chunkEmbeddings, results, qi, emb, fnArgs, fnRet>>
  /\ \E outcome \in FetchOutcomes :
       LET log == Replied(calls[r], outcome)
       IN  IF outcome = "network error"
           THEN /\ Respond(r, FetchFailed("fetch failed"))
                /\ calls' = [calls EXCEPT ![r] = log]
           ELSE IF ~ResponseOk(outcome)
           THEN /\ pc' = [pc EXCEPT ![r] = "errtext"]
                /\ calls' = [calls EXCEPT ![r] = Append(log, Call("text", 0, 0, 0))]
                /\ UNCHANGED response
           ELSE IF ~IsPdfContentType(outcome)
           THEN /\ Respond(r, FetchFailed("Invalid content type. Expected PDF document."))
                /\ calls' = [calls EXCEPT ![r] = log]
           ELSE /\ pc' = [pc EXCEPT ![r] = "buffer"]
                /\ calls' = [calls EXCEPT ![r] = Append(log, Call("arrayBuffer", 0, 0, 0))]
                /\ UNCHANGED response

\* await pdfRes.text().catch(...) of a response that is not ok; then the throw.
ErrorText(r) ==
  /\ pc[r] = "errtext"
  /\ \E outcome \in {"details", "No error details available"} :
       calls' = [calls EXCEPT ![r] = Replied(@, outcome)]
  /\ Respond(r, FetchFailed("Failed to download document."))
  /\ UNCHANGED <<input, fullText, chunks, chunkEmbeddings, results, qi, emb, fnArgs, fnRet>>

\* await pdfRes.arrayBuffer() returns or throws; then pdf(...) is called.
Buffer(r) ==
  /\ pc[r] = "buffer"
  /\ UNCHANGED <<input, fullText, chunks, chunkEmbeddings, results, qi, emb, fnArgs, fnRet>>
  /\ \E outcome \in {"throws", "empty", "bytes"} :
       LET log == Replied(calls[r], outcome)
       IN  CASE outcome = "throws" ->
                  /\ Respond(r, FetchFailed("terminated"))
                  /\ calls' = [calls EXCEPT ![r] = log]
             [] outcome = "empty" ->
                  /\ Respond(r, FetchFailed("Received empty PDF buffer"))
                  /\ calls' = [calls EXCEPT ![r] = log]
             [] outcome = "bytes" ->
                  /\ pc' = [pc EXCEPT ![r] = "parse"]
                  /\ calls' = [calls EXCEPT ![r] = Append(log, Call("pdf", 0, 0, 0))]
                  /\ UNCHANGED response

\* What pdf(...) may extract as parsed.text: whitespace alone, 2 words after a
\* newline (1 chunk), and 10 * 500 + 1 words (11 chunks, 2 batches).
WordsText(n) == [p \in 1..(2 * n - 1) |-> IF p % 2 = 1 THEN "a" ELSE " "]

DocTexts ==
  << <<" ", "\n">>,
     <<"\n">> \o WordsText(2),
     WordsText(BatchSize * ChunkWords + 1) >>

\* Lines 72-86 for fullText = text: the chunks, or the throw the catch answers.
ChunkStage(text) ==
  IF trim(text) = <<>> THEN Throw("Extracted PDF text is empty")
  ELSE LET chunked == chunkText(text, ChunkWords)
       IN  IF chunked.ok THEN Return(TextsFrom(chunked.val, 1)) ELSE chunked

\* For each text of DocTexts from the k-th on: the text as the state holds it,
\* whether text.trim() is empty, and what the chunking makes of it (worked out
\* once for the model, not once for each state).
RECURSIVE ExtractedFrom(_)
ExtractedFrom(k) ==
  IF k > Len(DocTexts) THEN <<>>
  ELSE << [fullText |-> Text(DocTexts[k]),
           blank |-> trim(DocTexts[k]) = <<>>,
           chunked |-> ChunkStage(DocTexts[k])] >> \o ExtractedFrom(k + 1)

Extracted == ExtractedFrom(1)

\* await pdf(Buffer.from(pdfBuffer)) returns or throws; then the chunking (lines
\* 72-86), and getEmbeddings(chunks) up to its first await.
Parse(r) ==
  /\ pc[r] = "parse"
  /\ UNCHANGED <<input, chunkEmbeddings, results, qi, fnArgs, fnRet>>
  /\ \/ /\ Respond(r, FetchFailed("Invalid PDF structure"))
        /\ calls' = [calls EXCEPT ![r] = Replied(@, "throws")]
        /\ UNCHANGED <<fullText, chunks, emb>>
     \/ \E d \in 1..Len(Extracted) :
          LET parsed == Extracted[d]
              log == Replied(calls[r], IF parsed.blank THEN "blank text" ELSE "text")
          IN  /\ fullText' = [fullText EXCEPT ![r] = parsed.fullText]
              /\ IF parsed.blank
                 THEN /\ Respond(r, FetchFailed("PDF parsing succeeded but extracted text is empty"))
                      /\ calls' = [calls EXCEPT ![r] = log]
                      /\ UNCHANGED <<chunks, emb>>
                 ELSE IF ~parsed.chunked.ok
                 THEN /\ Respond(r, ErrorResponse(500, <<"Failed to process the document content.">>))
                      /\ calls' = [calls EXCEPT ![r] = log]
                      /\ UNCHANGED <<chunks, emb>>
                 ELSE /\ chunks' = [chunks EXCEPT ![r] = parsed.chunked.val]
                      /\ StartCorpusEmbeddings(r, parsed.chunked.val, log)

\* What askOpenRouter may return.
Answers == {"A1", "A2"}

\* CorpusFailed with a defect: the catch does not return, and the loop runs with
\* chunkEmbeddings still [].
CorpusFailedGoesOn(r, log) ==
  /\ ContinueLoop(r, 1, <<>>, log)
  /\ UNCHANGED chunkEmbeddings

\* The catch of lines 93-99: getEmbeddings(chunks) threw.
CorpusFailed(r, log) ==
  /\ Respond(r, ErrorResponse(500, <<"Failed to generate document embeddings.">>))
  /\ calls' = [calls EXCEPT ![r] = log]
  /\ UNCHANGED <<chunkEmbeddings, results, qi, emb>>

\* QuestionFailed with a defect: the loop body has no catch of its own, and the
\* throw reaches the catch of line 133.
QuestionFailedAborts(r, q, log) ==
  /\ Respond(r, ErrorResponse(500, <<"Failed to generate embeddings">>))
  /\ calls' = [calls EXCEPT ![r] = log]
  /\ UNCHANGED <<results, qi, emb>>

\* The catch of lines 125-128: the body of the loop threw for question q.
QuestionFailed(r, q, log) ==
  ContinueLoop(r, q + 1, Append(results[r], FailedQuestion(input[r].questions.items[q])), log)

\* await openai.embeddings.create(...) returns or throws, in getEmbeddings: the
\* vectors are pushed and either the pause starts or getEmbeddings returns, to
\* line 91 (the loop starts) or to line 113 (findRelevantChunks runs, and
\* askOpenRouter is called).
EmbeddingReply(r) ==
  /\ pc[r] = "embedding"
  /\ UNCHANGED <<input, fullText, chunks, fnArgs, fnRet>>
  /\ LET texts == EmbTexts(r)
         q == emb[r].q
         i == emb[r].i
     IN  \E mode \in EmbedModes(q) :
           LET log == Replied(calls[r], mode)
           IN  IF mode = "throw"
               THEN IF q = 0
                    THEN CorpusFailed(r, log)
                    ELSE /\ QuestionFailed(r, q, log)
                         /\ UNCHANGED chunkEmbeddings
               ELSE LET embeddings == emb[r].embeddings
                                        \o ReplyVectors(mode, i, BatchLen(Len(texts), i))
                    IN  IF i + BatchSize < Len(texts)
                        THEN /\ pc' = [pc EXCEPT ![r] = "pause"]
                             /\ emb' = [emb EXCEPT ![r].embeddings = embeddings]
                             /\ calls' = [calls EXCEPT ![r] = Append(log, Call("pause", q, i, PauseMs))]
                             /\ UNCHANGED <<chunkEmbeddings, results, qi, response>>
                        ELSE IF q = 0
                        THEN /\ chunkEmbeddings' = [chunkEmbeddings EXCEPT ![r] = embeddings]
                             /\ ContinueLoop(r, 1, <<>>, log)
                        ELSE LET questionEmbedding ==
                                   IF embeddings = <<>> THEN <<>> ELSE embeddings[1]
                                 relevantChunks ==
                                   findRelevantChunks(questionEmbedding, chunkEmbeddings[r],
                                                      chunks[r], DefaultTopK)
                             IN  /\ UNCHANGED chunkEmbeddings
                                 /\ IF ~relevantChunks.ok
                                    THEN QuestionFailed(r, q, log)
                                    ELSE /\ pc' = [pc EXCEPT ![r] = "synth"]
                                         /\ calls' = [calls EXCEPT ![r] =
                                              Append(log, Call("synth", q, 0, Len(relevantChunks.val)))]
                                         /\ UNCHANGED <<results, qi, emb, response>>

\* Pause with a defect: the pause is not awaited, and the next batch is sent
\* while it runs.
PauseNotAwaited(r) ==
  /\ pc[r] = "pause"
  /\ LET i == emb[r].i + BatchSize
     IN  /\ emb' = [emb EXCEPT ![r].i = i]
         /\ calls' = [calls EXCEPT ![r] =
              Append(@, Call("embed", emb[r].q, i, BatchLen(Len(EmbTexts(r)), i)))]
  /\ pc' = [pc EXCEPT ![r] = "embedding"]
  /\ UNCHANGED <<input, fullText, chunks, chunkEmbeddings, results, qi, response, fnArgs, fnRet>>

\* Pause with a defect: resolve is never called, and the pause never ends.
PauseNeverResolves(r) ==
  /\ pc[r] = "pause"
  /\ UNCHANGED <<pc, emb, calls>>
  /\ UNCHANGED <<input, fullText, chunks, chunkEmbeddings, results, qi, response, fnArgs, fnRet>>

\* The setTimeout of getEmbeddings fires: i += batchSize, and the next batch is sent.
Pause(r) ==
  /\ pc[r] = "pause"
  /\ LET i == emb[r].i + BatchSize
     IN  /\ emb' = [emb EXCEPT ![r].i = i]
         /\ calls' = [calls EXCEPT ![r] =
              Append(Replied(@, "elapsed"),
                     Call("embed", emb[r].q, i, BatchLen(Len(EmbTexts(r)), i)))]
  /\ pc' = [pc EXCEPT ![r] = "embedding"]
  /\ UNCHANGED <<input, fullText, chunks, chunkEmbeddings, results, qi, response, fnArgs, fnRet>>

\* await askOpenRouter(question, relevantChunks) returns or throws; the result is
\* pushed and the loop goes on.
Synth(r) ==
  /\ pc[r] = "synth"
  /\ UNCHANGED <<input, fullText, chunks, chunkEmbeddings, fnArgs, fnRet>>
  /\ \E reply \in Answers \cup {"throw"} :
       LET log == Replied(calls[r], reply)
       IN  IF reply = "throw"
           THEN QuestionFailed(r, qi[r], log)
           ELSE ContinueLoop(r, qi[r] + 1, Append(results[r], <<reply>>), log)

(***************************************************************************)
(* The requests.                                                           *)
(***************************************************************************)
RECURSIVE SeqsUpTo(_, _)
\* The sequences over S of length at most n.
SeqsUpTo(S, n) ==
  IF n = 0 THEN {<<>>}
  ELSE LET shorter == SeqsUpTo(S, n - 1)
       IN  shorter \cup {Append(s, x) : s \in {t \in shorter : Len(t) = n - 1}, x \in S}

\* The elements of the questions array: the empty string, a blank string, a
\* question, and a number.
QuestionValues == {Str(<<>>), Str(<<" ">>), Str(<<"q">>), Num(<<"7">>)}

Body(kind, documents, questions) ==
  [kind |-> kind, documents |-> documents, questions |-> questions]

\* What req.json() yields: a throw (no JSON), null, or an object.
Bodies ==
  {Body("unparsable", Undefined, Undefined), Body("null", Undefined, Undefined)}
  \cup {Body("object", d, q) :
          d \in {Undefined, Str(<<>>), Str(<<"u">>)},
          q \in {Undefined, Str(<<"q">>)}
                  \cup {Arr(l) : l \in SeqsUpTo(QuestionValues, MaxQuestions)}}

NoCall == [fn |-> "none"]

InitRequests(R) ==
  /\ pc = [r \in R |-> "body"]
  /\ input \in [R -> Bodies]
  /\ fullText = [r \in R |-> ""]
  /\ chunks = [r \in R |-> <<>>]
  /\ chunkEmbeddings = [r \in R |-> <<>>]
  /\ results = [r \in R |-> <<>>]
  /\ qi = [r \in R |-> 0]
  /\ emb = [r \in R |-> [q |-> 0, i |-> 0, embeddings |-> <<>>]]
  /\ response = [r \in R |-> <<>>]
  /\ calls = [r \in R |-> <<>>]

Init ==
  /\ InitRequests({1})
  /\ fnArgs = NoCall
  /\ fnRet = <<>>

Next ==
  \/ \E r \in DOMAIN pc : ReadBody(r)
  \/ \E r \in DOMAIN pc : Fetch(r)
  \/ \E r \in DOMAIN pc : ErrorText(r)
  \/ \E r \in DOMAIN pc : Buffer(r)
  \/ \E r \in DOMAIN pc : Parse(r)
  \/ \E r \in DOMAIN pc : EmbeddingReply(r)
  \/ \E r \in DOMAIN pc : Pause(r)
  \/ \E r \in DOMAIN pc : Synth(r)

Spec == Init /\ [][Next]_vars

(***************************************************************************)
(* chunkText called on its own, with every text of at most MaxTextLen      *)
(* characters and every maxWords in 0..MaxMaxWords.                        *)
(***************************************************************************)
InitChunk ==
  /\ InitRequests({})
  /\ fnArgs \in {[fn |-> "chunkText", text |-> text, maxWords |-> maxWords] :
                   text \in SeqsUpTo(Chars, MaxTextLen), maxWords \in 0..MaxMaxWords}
  /\ fnRet = <<>>

CallChunkText ==
  /\ fnArgs.fn = "chunkText"
  /\ fnRet = <<>>
  /\ fnRet' = <<chunkText(fnArgs.text, fnArgs.maxWords)>>
  /\ UNCHANGED <<fnArgs, pc, input, fullText, chunks, chunkEmbeddings, results, qi, emb,
                 response, calls>>

NextChunk == CallChunkText

SpecChunk == InitChunk /\ [][NextChunk]_vars

(***************************************************************************)
(* findRelevantChunks called on its own: at most MaxDocs document vectors, *)
(* as many chunks or one fewer, and every topK in -1..MaxTopK.             *)
(***************************************************************************)
QueryVectors == {<<1, 0>>, <<1, 1>>, <<0, 0>>, <<1>>, <<>>}
DocVectors == {<<1, 0>>, <<0, 1>>, <<9, 1>>, <<-1, 0>>}

\* Chunk k of a document: k characters, so that no two chunks are equal.
ChunkOf(k) == [j \in 1..k |-> "c"]

RECURSIVE ChunksUpTo(_)
ChunksUpTo(n) == IF n <= 0 THEN <<>> ELSE Append(ChunksUpTo(n - 1), ChunkOf(n))

InitRank ==
  /\ InitRequests({})
  /\ fnArgs \in {[fn |-> "findRelevantChunks", queryEmbedding |-> query,
                  docEmbeddings |-> docs, docChunks |-> ChunksUpTo(Len(docs) - less),
                  topK |-> topK] :
                   query \in QueryVectors, docs \in SeqsUpTo(DocVectors, MaxDocs),
                   less \in {0, 1}, topK \in (-1)..MaxTopK}
  /\ fnRet = <<>>

CallFindRelevantChunks ==
  /\ fnArgs.fn = "findRelevantChunks"
  /\ fnRet = <<>>
  /\ fnRet' = <<findRelevantChunks(fnArgs.queryEmbedding, fnArgs.docEmbeddings,
                                   fnArgs.docChunks, fnArgs.topK)>>
  /\ UNCHANGED <<fnArgs, pc, input, fullText, chunks, chunkEmbeddings, results, qi, emb,
                 response, calls>>

NextRank == CallFindRelevantChunks

SpecRank == InitRank /\ [][NextRank]_vars

(***************************************************************************)
(* Properties of the requests (Spec).                                      *)
(***************************************************************************)
Requests == DOMAIN pc
Done(r) == pc[r] = "done"
Questions(r) == input[r].questions.items

\* Every character of s is whitespace (so the empty string too).
AllWhitespace(s) == \A p \in 1..Len(s) : s[p] \in Whitespace

BlankQuestion(question) == question.t = "string" /\ AllWhitespace(question.v)

\* The calls of request r to service svc made for question q.
CallsFor(r, svc, q) ==
  {k \in DOMAIN calls[r] : calls[r][k].svc = svc /\ calls[r][k].q = q}

\* What the answers list must hold for question i, going by the question and by
\* what askOpenRouter returned for it.
ExpectedResult(r, i) ==
  LET question == Questions(r)[i]
      answered == {k \in CallsFor(r, "synth", i) : calls[r][k].reply \in Answers}
  IN  IF BlankQuestion(question) THEN EmptyQuestion
      ELSE IF answered # {} THEN <<calls[r][CHOOSE k \in answered : TRUE].reply>>
      ELSE FailedQuestion(question)

\* The last batch of the chunks came back from the embedding service.
CorpusEmbedded(r) ==
  \E k \in DOMAIN calls[r] :
    /\ calls[r][k].svc = "embed" /\ calls[r][k].q = 0
    /\ calls[r][k].reply \notin {"pending", "throw"}
    /\ calls[r][k].from + calls[r][k].n = Len(chunks[r])

\* C1: a request that got through validation, extraction, chunking and the
\* embedding of the chunks ends with status 200 and an answers list with one
\* entry for each question, entry i being the result of question i (placeholder,
\* error string or answer); and no response exists before the request is done.
C1_AnswersAligned ==
  \A r \in Requests :
    /\ ~Done(r) => response[r] = <<>>
    /\ (Done(r) /\ CorpusEmbedded(r)) =>
         /\ Len(response[r]) = 1
         /\ response[r][1].status = 200
         /\ response[r][1].kind = "answers"
         /\ Len(response[r][1].answers) = Len(Questions(r))
         /\ \A i \in 1..Len(Questions(r)) : response[r][1].answers[i] = ExpectedResult(r, i)

\* C1 witness: a finished request of three questions whose answers hold a
\* placeholder, an error string and an answer.
C1_Witness ==
  \E r \in Requests :
    /\ Done(r) /\ CorpusEmbedded(r) /\ Len(Questions(r)) = 3
    /\ response[r][1].kind = "answers"
    /\ \E i, j, k \in 1..3 :
         /\ response[r][1].answers[i] = EmptyQuestion
         /\ response[r][1].answers[j] = FailedQuestion(Questions(r)[j])
         /\ response[r][1].answers[k] \in {<<a>> : a \in Answers}

\* A call made for a question threw: its embedding call or its askOpenRouter call.
ThrewForQuestion(call) ==
  call.svc \in {"embed", "synth"} /\ call.q > 0 /\ call.reply = "throw"

\* Question j was taken up by the loop: it got its result without a call, or its
\* embedding call was made.
TakenUp(r, j) ==
  \/ Questions(r)[j].t # "string"
  \/ BlankQuestion(Questions(r)[j])
  \/ CallsFor(r, "embed", j) # {}

\* C2: when the embedding call or the askOpenRouter call of question i throws,
\* results holds the error string naming that question at position i, one result
\* for each question gone through so far; the request is not aborted: it ends
\* with status 200 and a full answers list, every later question taken up.
C2_QuestionFailureIsolated ==
  \A r \in Requests : \A k \in DOMAIN calls[r] :
    ThrewForQuestion(calls[r][k]) =>
      LET i == calls[r][k].q
      IN  /\ Len(results[r]) >= i
          /\ results[r][i] = FailedQuestion(Questions(r)[i])
          /\ ~Done(r) => Len(results[r]) = qi[r] - 1
          /\ Done(r) =>
               /\ response[r][1].status = 200
               /\ response[r][1].kind = "answers"
               /\ response[r][1].answers = results[r]
               /\ Len(results[r]) = Len(Questions(r))
               /\ \A j \in (i + 1)..Len(Questions(r)) : TakenUp(r, j)

\* C2 witness: a finished request whose first question failed at its embedding
\* call, whose second failed at askOpenRouter, and whose third was answered.
C2_Witness ==
  \E r \in Requests :
    /\ Done(r) /\ Len(Questions(r)) = 3
    /\ \E k \in CallsFor(r, "embed", 1) : calls[r][k].reply = "throw"
    /\ \E k \in CallsFor(r, "synth", 2) : calls[r][k].reply = "throw"
    /\ \E k \in CallsFor(r, "synth", 3) : calls[r][k].reply \in Answers
    /\ response[r][1].status = 200

\* The body parsed as JSON, and the document reference is missing or empty, or
\* questions is missing, not a list, or an empty list.
Malformed(body) ==
  \/ body.kind = "null"
  \/ /\ body.kind = "object"
     /\ \/ body.documents.t = "undefined"
        \/ body.documents = Str(<<>>)
        \/ body.questions.t # "array"
        \/ body.questions.items = <<>>

\* C3: a malformed request ends with status 400, and no call to a collaborator
\* is made for it.
C3_MalformedIs400 ==
  \A r \in Requests :
    Malformed(input[r]) =>
      /\ calls[r] = <<>>
      /\ Done(r) => response[r][1].status = 400

\* The extraction failed: the fetch, the reading of the body or the parsing
\* failed, the status was no success, the content type was not PDF, the body or
\* the extracted text was empty.
ExtractFailed(r) ==
  \E k \in DOMAIN calls[r] :
    \/ /\ calls[r][k].svc = "fetch"
       /\ calls[r][k].reply \in {"network error", "404 text/html", "200 text/html", "200 none"}
    \/ /\ calls[r][k].svc = "arrayBuffer"
       /\ calls[r][k].reply \in {"throws", "empty"}
    \/ /\ calls[r][k].svc = "pdf"
       /\ calls[r][k].reply \in {"throws", "blank text"}

\* C4: once the extraction has failed, the request makes no call to the embedding
\* service or to askOpenRouter, only the reading of the error details of a
\* response that is not ok may still be under way, and the response is a 500
\* error.
C4_ExtractFailureIsFatal ==
  \A r \in Requests :
    ExtractFailed(r) =>
      /\ \A k \in DOMAIN calls[r] : calls[r][k].svc \notin {"embed", "pause", "synth"}
      /\ results[r] = <<>>
      /\ ~Done(r) => pc[r] = "errtext"
      /\ Done(r) =>
           /\ Len(response[r]) = 1
           /\ response[r][1].status = 500
           /\ response[r][1].kind = "error"

\* C4 witness: a finished request whose fetch returned a page that is no PDF.
C4_Witness ==
  \E r \in Requests :
    /\ Done(r)
    /\ \E k \in DOMAIN calls[r] :
         calls[r][k].svc = "fetch" /\ calls[r][k].reply = "200 text/html"
    /\ response[r][1].status = 500

\* C5: once a batch of the chunks has made the embedding service throw, the
\* request is done with a 500 error: that call is its last, no call was made for
\* any question, the loop never started and there is no answers list.
C5_CorpusFailureIsFatal ==
  \A r \in Requests : \A k \in DOMAIN calls[r] :
    (calls[r][k].svc = "embed" /\ calls[r][k].q = 0 /\ calls[r][k].reply = "throw") =>
      /\ Done(r)
      /\ Len(response[r]) = 1
      /\ response[r][1].status = 500
      /\ response[r][1].kind = "error"
      /\ response[r][1].answers = <<>>
      /\ k = Len(calls[r])
      /\ \A c \in DOMAIN calls[r] : calls[r][c].q = 0 /\ calls[r][c].svc # "synth"
      /\ results[r] = <<>>
      /\ qi[r] = 0

\* C5 witness: the second batch of the chunks made the service throw.
C5_Witness ==
  \E r \in Requests : \E k \in DOMAIN calls[r] :
    /\ calls[r][k].svc = "embed" /\ calls[r][k].q = 0
    /\ calls[r][k].from = BatchSize /\ calls[r][k].reply = "throw"
    /\ Done(r)

\* C6: a question that is empty or whitespace alone gets the placeholder at its
\* position and no call is made for it; the other positions of the answers list
\* hold what their own questions came to.
C6_BlankQuestionPlaceholder ==
  \A r \in Requests : \A i \in 1..Len(Questions(r)) :
    BlankQuestion(Questions(r)[i]) =>
      /\ \A k \in DOMAIN calls[r] : calls[r][k].q # i
      /\ Len(results[r]) >= i => results[r][i] = EmptyQuestion
      /\ (Done(r) /\ response[r][1].kind = "answers") =>
           /\ Len(response[r][1].answers) = Len(Questions(r))
           /\ response[r][1].answers[i] = EmptyQuestion
           /\ \A j \in 1..Len(Questions(r)) :
                j # i => response[r][1].answers[j] = ExpectedResult(r, j)

\* C6 witness: of three questions the second is a blank, and the first and the
\* third are answered.
C6_Witness ==
  \E r \in Requests :
    /\ Done(r) /\ Len(Questions(r)) = 3
    /\ Questions(r)[2] = Str(<<" ">>)
    /\ response[r][1].kind = "answers"
    /\ response[r][1].answers[2] = EmptyQuestion
    /\ response[r][1].answers[1] \in {<<a>> : a \in Answers}
    /\ response[r][1].answers[3] \in {<<a>> : a \in Answers}

(***************************************************************************)
(* Properties of chunkText (SpecChunk).                                    *)
(***************************************************************************)
\* The words of a string: its maximal runs of characters that are no whitespace.
RECURSIVE WordsFrom(_, _, _)
WordsFrom(s, p, word) ==
  IF p > Len(s) THEN (IF word = <<>> THEN <<>> ELSE <<word>>)
  ELSE IF s[p] \in Whitespace
  THEN (IF word = <<>> THEN <<>> ELSE <<word>>) \o WordsFrom(s, p + 1, <<>>)
  ELSE WordsFrom(s, p + 1, Append(word, s[p]))

Words(s) == WordsFrom(s, 1, <<>>)

\* The words of the strings from the k-th on, in order.
RECURSIVE WordsOfAllFrom(_, _)
WordsOfAllFrom(strings, k) ==
  IF k > Len(strings) THEN <<>>
  ELSE Words(strings[k]) \o WordsOfAllFrom(strings, k + 1)

ChunkCalled == fnArgs.fn = "chunkText" /\ fnRet # <<>>

\* C7: for a non-empty text and maxWords > 0, chunkText returns chunks whose
\* words, taken chunk after chunk, are the words of the text, and every chunk
\* but the last holds exactly maxWords words.
C7_ChunksPartitionWords ==
  (ChunkCalled /\ fnArgs.text # <<>> /\ fnArgs.maxWords > 0) =>
    /\ fnRet[1].ok
    /\ WordsOfAllFrom(fnRet[1].val, 1) = Words(fnArgs.text)
    /\ \A k \in 1..(Len(fnRet[1].val) - 1) :
         Len(Words(fnRet[1].val[k])) = fnArgs.maxWords

(***************************************************************************)
(* Properties of findRelevantChunks (SpecRank).                            *)
(***************************************************************************)
RankCalled == fnArgs.fn = "findRelevantChunks" /\ fnRet # <<>>

\* The arguments are valid whatever topK is: a query, as many vectors as chunks
\* and at least one, every vector comparable with the query.
RankValid ==
  /\ Len(fnArgs.queryEmbedding) > 0
  /\ Len(fnArgs.docEmbeddings) > 0
  /\ Len(fnArgs.docChunks) = Len(fnArgs.docEmbeddings)
  /\ \A i \in 1..Len(fnArgs.docEmbeddings) :
       cosineSimilarity(fnArgs.queryEmbedding, fnArgs.docEmbeddings[i]).ok

\* The similarity of chunk i to the query.
RankScore(i) == cosineSimilarity(fnArgs.queryEmbedding, fnArgs.docEmbeddings[i]).val

\* The position in docChunks of a chunk of ChunksUpTo: its length.
RankIndex(chunk) == Len(chunk)

\* The returned chunks are in non-increasing order of similarity to the query.
RankSorted ==
  \A a, b \in 1..Len(fnRet[1].val) :
    a < b => ScoreDiff(RankScore(RankIndex(fnRet[1].val[a])),
                       RankScore(RankIndex(fnRet[1].val[b]))) >= 0

\* C8 as stated: for valid arguments and any topK, at most min(topK,
\* len(docChunks)) chunks are returned, in non-increasing order of similarity.
C8_AtMostMinTopK ==
  (RankCalled /\ RankValid) =>
    /\ fnRet[1].ok
    /\ Len(fnRet[1].val) <= Min(fnArgs.topK, Len(fnArgs.docChunks))
    /\ RankSorted

\* C8 amended: for valid arguments, at most min(topK, len(docChunks)) chunks are
\* returned when topK >= 1 and at most min(3, len(docChunks)) when topK <= 0, in
\* non-increasing order of similarity.
C8_AtMostClampedTopK ==
  (RankCalled /\ RankValid) =>
    /\ fnRet[1].ok
    /\ fnArgs.topK >= 1 => Len(fnRet[1].val) <= Min(fnArgs.topK, Len(fnArgs.docChunks))
    /\ fnArgs.topK <= 0 => Len(fnRet[1].val) <= Min(FallbackTopK, Len(fnArgs.docChunks))
    /\ RankSorted

\* C8 witness: query [1,0], vectors [1,0], [0,1], [0.9,0.1] (scaled by 10),
\* topK = 2: the first and the third chunk are returned, in that order.
C8_Witness ==
  /\ RankCalled
  /\ fnArgs.queryEmbedding = <<1, 0>>
  /\ fnArgs.docEmbeddings = << <<1, 0>>, <<0, 1>>, <<9, 1>> >>
  /\ Len(fnArgs.docChunks) = 3
  /\ fnArgs.topK = 2
  /\ fnRet[1].ok
  /\ fnRet[1].val = <<ChunkOf(1), ChunkOf(3)>>

\* C9: for valid arguments findRelevantChunks returns whatever topK is: exactly
\* topK chunks when 1 <= topK <= len(docChunks), and exactly min(3,
\* len(docChunks)) chunks otherwise.
C9_ExactCount ==
  (RankCalled /\ RankValid) =>
    /\ fnRet[1].ok
    /\ Len(fnRet[1].val) =
         IF 1 <= fnArgs.topK /\ fnArgs.topK <= Len(fnArgs.docChunks) THEN fnArgs.topK
         ELSE Min(FallbackTopK, Len(fnArgs.docChunks))

\* C9 witness: a negative topK and four chunks: three are returned; and a topK
\* beyond two chunks: both are returned.
C9_Witness ==
  /\ RankCalled /\ RankValid
  /\ \/ fnArgs.topK = -1 /\ Len(fnArgs.docChunks) = 4 /\ Len(fnRet[1].val) = 3
     \/ fnArgs.topK = 3 /\ Len(fnArgs.docChunks) = 2 /\ Len(fnRet[1].val) = 2

\* The positions in docChunks of the returned chunks.
RankSelected == {RankIndex(fnRet[1].val[a]) : a \in 1..Len(fnRet[1].val)}

\* C10: returned chunks of equal similarity are in their order in docChunks, and
\* a returned chunk never has an earlier chunk of the same similarity left out.
C10_TiesInDocumentOrder ==
  (RankCalled /\ RankValid /\ fnRet[1].ok) =>
    /\ \A a, b \in 1..Len(fnRet[1].val) :
         (a < b /\ ScoreDiff(RankScore(RankIndex(fnRet[1].val[a])),
                             RankScore(RankIndex(fnRet[1].val[b]))) = 0)
           => RankIndex(fnRet[1].val[a]) < RankIndex(fnRet[1].val[b])
    /\ \A j \in RankSelected : \A i \in 1..(j - 1) :
         ScoreDiff(RankScore(i), RankScore(j)) = 0 => i \in RankSelected

\* C10 witness: of two chunks of the same similarity the earlier one is returned
\* and the later one is left out, and two returned chunks tie.
C10_Witness ==
  /\ RankCalled /\ RankValid /\ fnRet[1].ok
  /\ \E i, j \in 1..Len(fnArgs.docChunks) :
       /\ i < j /\ ScoreDiff(RankScore(i), RankScore(j)) = 0
       /\ i \in RankSelected /\ j \notin RankSelected
  /\ \E a, b \in 1..Len(fnRet[1].val) :
       a < b /\ ScoreDiff(RankScore(RankIndex(fnRet[1].val[a])),
                          RankScore(RankIndex(fnRet[1].val[b]))) = 0

(***************************************************************************)
(* getEmbeddings called on its own, with the first n texts of a list of    *)
(* distinct texts, n in 0..MaxTexts.  Here pc is the await the call is     *)
(* suspended at, emb its locals i and embeddings, and calls the history of *)
(* its calls: each call to the service with the batch it sent and, once it *)
(* has ended, the vectors it returned.                                     *)
(***************************************************************************)
\* texts.slice(i, i + batchSize)
Batch(texts, i) == SubSeq(texts, i + 1, i + BatchLen(Len(texts), i))

\* What res.data.map((d) => d.embedding) may be for a batch: one vector for each
\* text in order (two such services, so that the vectors tell the calls apart),
\* or a list that is one vector short.
ServiceVectors(mode, batch) ==
  CASE mode = "echo"  -> [k \in 1..Len(batch) |-> <<Len(batch[k]), 1>>]
    [] mode = "other" -> [k \in 1..Len(batch) |-> <<Len(batch[k]), 2>>]
    [] mode = "short" -> [k \in 1..(Len(batch) - 1) |-> <<Len(batch[k]), 1>>]

ServiceModes == {"throw", "echo", "other", "short"}

CreateCall(batch, from) ==
  [svc |-> "embed", input |-> batch, from |-> from, reply |-> <<"pending">>]

PauseCall == [svc |-> "pause", input |-> <<>>, from |-> PauseMs, reply |-> <<"pending">>]

\* The catch of lines 241-244: whatever was thrown in the try, the caller gets
\* Error("Failed to generate embeddings").
EmbeddingsFailed == Throw("Failed to generate embeddings")

\* MoreBatches with a defect: the pause follows every batch, the last one too.
MoreBatchesAlways(i, n) == TRUE

\* if (i + batchSize < texts.length): another batch follows the one sent at i.
MoreBatches(i, n) == i + BatchSize < n

InitEmbed ==
  /\ fnArgs \in {[fn |-> "getEmbeddings", texts |-> ChunksUpTo(n)] : n \in 0..MaxTexts}
  /\ fnRet = <<>>
  /\ pc = "start"
  /\ emb = [i |-> 0, embeddings |-> <<>>]
  /\ calls = <<>>
  /\ input = <<>> /\ fullText = <<>> /\ chunks = <<>> /\ chunkEmbeddings = <<>>
  /\ results = <<>> /\ qi = <<>> /\ response = <<>>

\* getEmbeddings(texts) up to its first await: the check of line 217 throws inside
\* the try, so an empty texts ends in the catch; else the first batch is sent.
CallGetEmbeddings ==
  /\ pc = "start"
  /\ IF Len(fnArgs.texts) = 0
     THEN /\ fnRet' = <<EmbeddingsFailed>>
          /\ pc' = "done"
          /\ UNCHANGED calls
     ELSE /\ calls' = <<CreateCall(Batch(fnArgs.texts, 0), 0)>>
          /\ pc' = "embedding"
          /\ UNCHANGED fnRet
  /\ UNCHANGED <<fnArgs, emb, input, fullText, chunks, chunkEmbeddings, results, qi, response>>

\* await openai.embeddings.create(...) returns or throws: the vectors are pushed,
\* and the pause starts or the loop and the call end.
CreateReturns ==
  /\ pc = "embedding"
  /\ \E mode \in ServiceModes :
       IF mode = "throw"
       THEN /\ calls' = [calls EXCEPT ![Len(calls)].reply = <<"throw">>]
            /\ fnRet' = <<EmbeddingsFailed>>
            /\ pc' = "done"
            /\ UNCHANGED emb
       ELSE LET vectors == ServiceVectors(mode, calls[Len(calls)].input)
                embeddings == emb.embeddings \o vectors
                log == [calls EXCEPT ![Len(calls)].reply = vectors]
            IN  /\ emb' = [emb EXCEPT !.embeddings = embeddings]
                /\ IF MoreBatches(emb.i, Len(fnArgs.texts))
                   THEN /\ calls' = Append(log, PauseCall)
                        /\ pc' = "pause"
                        /\ UNCHANGED fnRet
                   ELSE /\ calls' = log
                        /\ fnRet' = <<Return(embeddings)>>
                        /\ pc' = "done"
  /\ UNCHANGED <<fnArgs, input, fullText, chunks, chunkEmbeddings, results, qi, response>>

\* The setTimeout fires: i += batchSize, and the loop sends the next batch, or
\* ends when i < texts.length is false.
PauseElapsed ==
  /\ pc = "pause"
  /\ LET i == emb.i + BatchSize
         log == [calls EXCEPT ![Len(calls)].reply = <<"elapsed">>]
     IN  /\ emb' = [emb EXCEPT !.i = i]
         /\ IF i < Len(fnArgs.texts)
            THEN /\ calls' = Append(log, CreateCall(Batch(fnArgs.texts, i), i))
                 /\ pc' = "embedding"
                 /\ UNCHANGED fnRet
            ELSE /\ calls' = log
                 /\ fnRet' = <<Return(emb.embeddings)>>
                 /\ pc' = "done"
  /\ UNCHANGED <<fnArgs, input, fullText, chunks, chunkEmbeddings, results, qi, response>>

NextEmbed ==
  \/ CallGetEmbeddings
  \/ CreateReturns
  \/ PauseElapsed

SpecEmbed == InitEmbed /\ [][NextEmbed]_vars

(***************************************************************************)
(* Properties of getEmbeddings (SpecEmbed).                                *)
(***************************************************************************)
IsCreate(call) == call.svc = "embed"

\* The calls to the embedding service so far, in order.
CreateCalls == SelectSeq(calls, IsCreate)

\* ceil(n / batchSize)
Batches(n) == (n + BatchSize - 1) \div BatchSize

EmbedReturned == pc = "done" /\ fnRet # <<>> /\ fnRet[1].ok

\* Every call so far returned one vector for each text of its batch.
FullReplies ==
  \A j \in 1..Len(CreateCalls) :
    CreateCalls[j].reply # <<"throw">> /\ Len(CreateCalls[j].reply) = Len(CreateCalls[j].input)

\* C11: for n >= 1 texts, the j-th call to the service (j = 0, 1, ...) carries
\* the texts 10j .. min(10j + 9, n - 1) in their order; a call of getEmbeddings
\* that returns has made exactly ceil(n / 10) calls; and when each call returned
\* one vector for each text of its batch, n vectors are returned, vector i being
\* the one the service gave for texts[i].
C11_BatchesInOrder ==
  LET texts == fnArgs.texts
      n == Len(texts)
  IN  n >= 1 =>
        /\ Len(CreateCalls) <= Batches(n)
        /\ \A j \in 1..Len(CreateCalls) :
             /\ CreateCalls[j].from = BatchSize * (j - 1)
             /\ CreateCalls[j].input =
                  SubSeq(texts, BatchSize * (j - 1) + 1, Min(BatchSize * j, n))
        /\ EmbedReturned => Len(CreateCalls) = Batches(n)
        /\ (EmbedReturned /\ FullReplies) =>
             /\ Len(fnRet[1].val) = n
             /\ \A i \in 1..n :
                  fnRet[1].val[i] =
                    CreateCalls[((i - 1) \div BatchSize) + 1].reply[((i - 1) % BatchSize) + 1]

\* C11 witness: 21 texts, three calls answered in full by two different
\* services, and 21 vectors returned.
C11_Witness ==
  /\ Len(fnArgs.texts) = 2 * BatchSize + 1
  /\ EmbedReturned /\ FullReplies
  /\ Len(CreateCalls) = 3
  /\ Len(fnRet[1].val) = 2 * BatchSize + 1
  /\ CreateCalls[1].reply[1] = <<1, 1>>
  /\ CreateCalls[2].reply[1] = <<BatchSize + 1, 2>>

IsPause(call) == call.svc = "pause"

\* The pauses so far, in order.
PauseCalls == SelectSeq(calls, IsPause)

\* C12: the calls of getEmbeddings are batch call, pause, batch call, ..., each
\* started only when the one before it has ended (one call at most is pending,
\* the last), each pause of 200 ms; never more than ceil(n / 10) - 1 pauses, so
\* none for a single batch; and when getEmbeddings returns, the last call was a
\* batch call and ceil(n / 10) - 1 pauses were made.
C12_PauseBetweenBatches ==
  LET n == Len(fnArgs.texts)
  IN  /\ \A k \in 1..Len(calls) :
           /\ IsCreate(calls[k]) <=> k % 2 = 1
           /\ IsPause(calls[k]) <=> k % 2 = 0
           /\ IsPause(calls[k]) => calls[k].from = PauseMs
           /\ k < Len(calls) => calls[k].reply # <<"pending">>
           /\ (k < Len(calls) /\ IsPause(calls[k])) => calls[k].reply = <<"elapsed">>
           /\ (k < Len(calls) /\ IsCreate(calls[k])) => calls[k].reply # <<"throw">>
      /\ n >= 1 => Len(PauseCalls) <= Batches(n) - 1
      /\ (pc = "done" /\ calls # <<>>) =>
           /\ IsCreate(calls[Len(calls)])
           /\ calls[Len(calls)].reply # <<"pending">>
      /\ EmbedReturned => Len(PauseCalls) = Batches(n) - 1

\* C12 witness: 21 texts and a call that returns: batch, pause, batch, pause, batch.
C12_Witness ==
  /\ Len(fnArgs.texts) = 2 * BatchSize + 1
  /\ EmbedReturned
  /\ Len(calls) = 5
  /\ Len(PauseCalls) = 2
  /\ IsPause(calls[2]) /\ IsPause(calls[4]) /\ IsCreate(calls[5])

\* The kind of an Error of this file, told by its message.
ErrorKind(msg) ==
  CASE msg = "Invalid input: texts must be a non-empty array of strings" -> "InvalidInput"
    [] msg = "Invalid input: vectors must be non-empty arrays" -> "InvalidInput"
    [] msg = "Vectors must have the same length" -> "InvalidInput"
    [] msg = "Invalid vectors: magnitude cannot be zero" -> "DegenerateVector"
    [] msg = "Failed to generate embeddings" -> "EmbeddingServiceError"
    [] OTHER -> "Error"

\* C13: getEmbeddings([]) throws an error of kind InvalidInput, not the
\* EmbeddingServiceError of a failed service, and calls the service not once.
C13_EmptyIsInvalidInput ==
  (Len(fnArgs.texts) = 0 /\ pc = "done") =>
    /\ ~fnRet[1].ok
    /\ ErrorKind(fnRet[1].err) = "InvalidInput"
    /\ calls = <<>>

(***************************************************************************)
(* cosineSimilarity called on its own, with every two vectors of at most   *)
(* MaxDim components.                                                      *)
(***************************************************************************)
Components == {-1, 0, 1, 2}

InitCos ==
  /\ InitRequests({})
  /\ fnArgs \in {[fn |-> "cosineSimilarity", a |-> a, b |-> b] :
                   a \in SeqsUpTo(Components, MaxDim), b \in SeqsUpTo(Components, MaxDim)}
  /\ fnRet = <<>>

CallCosineSimilarity ==
  /\ fnArgs.fn = "cosineSimilarity"
  /\ fnRet = <<>>
  /\ fnRet' = <<cosineSimilarity(fnArgs.a, fnArgs.b)>>
  /\ UNCHANGED <<fnArgs, pc, input, fullText, chunks, chunkEmbeddings, results, qi, emb,
                 response, calls>>

NextCos == CallCosineSimilarity

SpecCos == InitCos /\ [][NextCos]_vars

(***************************************************************************)
(* Properties of cosineSimilarity (SpecCos).                               *)
(***************************************************************************)
CosCalled == fnArgs.fn = "cosineSimilarity" /\ fnRet # <<>>

\* Every component of v is 0.
ZeroVector(v) == \A i \in 1..Len(v) : v[i] = 0

\* C14: cosineSimilarity(a, b) and cosineSimilarity(b, a) both return, and then
\* the same value, or both throw, and then an error of the same kind:
\* InvalidInput when a or b is empty or their lengths differ, and else
\* DegenerateVector when a or b has magnitude zero.
C14_CosineSymmetric ==
  CosCalled =>
    LET a == fnArgs.a
        b == fnArgs.b
        ab == fnRet[1]
        ba == cosineSimilarity(b, a)
    IN  /\ ab.ok = ba.ok
        /\ ab.ok => ab.val = ba.val
        /\ ~ab.ok => ErrorKind(ab.err) = ErrorKind(ba.err)
        /\ (Len(a) = 0 \/ Len(b) = 0 \/ Len(a) # Len(b))
             => (~ab.ok /\ ErrorKind(ab.err) = "InvalidInput")
        /\ (Len(a) = Len(b) /\ Len(a) > 0 /\ (ZeroVector(a) \/ ZeroVector(b)))
             => (~ab.ok /\ ErrorKind(ab.err) = "DegenerateVector")
        /\ (Len(a) = Len(b) /\ Len(a) > 0 /\ ~ZeroVector(a) /\ ~ZeroVector(b)) => ab.ok

\* C14 witness: two different vectors with a similarity, and it is 16/25 as
\* the model holds 4/5.
C14_Witness ==
  /\ CosCalled
  /\ fnArgs.a = <<1, 2>> /\ fnArgs.b = <<2, 1>>
  /\ fnRet[1] = Return([num |-> 16, den |-> 25])
  /\ cosineSimilarity(fnArgs.b, fnArgs.a) = fnRet[1]

(***************************************************************************)
(* Properties of the order of the calls of a request (Spec).               *)
(***************************************************************************)
\* The place of a call in the order of the stages: the fetch, the reading of
\* its body, the parsing, the embedding of the chunks (q = 0), and for question
\* q = 1, 2, ... its embedding and then its answer.
StageOf(call) ==
  CASE call.svc = "fetch" -> 0
    [] call.svc \in {"text", "arrayBuffer"} -> 1
    [] call.svc = "pdf" -> 2
    [] call.svc \in {"embed", "pause"} -> 3 + 2 * call.q
    [] call.svc = "synth" -> 4 + 2 * call.q

\* C15: in the history of a request a call starts only when the call before it
\* has ended; the stages never go back, and only the batches and pauses of one
\* getEmbeddings call share a stage; the answer of a question is asked for only
\* after that question's embedding came back; and a question is touched only
\* when every batch of the chunks has come back.
C15_CallsInStageOrder ==
  \A r \in Requests :
    /\ \A k \in 1..Len(calls[r]) :
         /\ k < Len(calls[r]) => calls[r][k].reply # "pending"
         /\ k > 1 => StageOf(calls[r][k - 1]) <= StageOf(calls[r][k])
         /\ (k > 1 /\ StageOf(calls[r][k - 1]) = StageOf(calls[r][k]))
              => {calls[r][k - 1].svc, calls[r][k].svc} = {"embed", "pause"}
         /\ k = 1 => calls[r][k].svc = "fetch"
         /\ calls[r][k].svc = "synth" =>
              /\ k > 1
              /\ calls[r][k - 1].svc = "embed" /\ calls[r][k - 1].q = calls[r][k].q
              /\ calls[r][k - 1].reply \notin {"pending", "throw"}
         /\ calls[r][k].q > 0 => CorpusEmbedded(r)
         /\ calls[r][k].svc \in {"embed", "pause"} =>
              \E j \in 1..(k - 1) : calls[r][j].svc = "pdf" /\ calls[r][j].reply = "text"
         /\ calls[r][k].svc = "pdf" =>
              \E j \in 1..(k - 1) : calls[r][j].svc = "fetch"
                                      /\ calls[r][j].reply = "200 application/pdf"
    /\ (qi[r] > 0 \/ results[r] # <<>>) => CorpusEmbedded(r)

\* C15 witness: a finished request with two batches of chunks and two answered
\* questions: fetch, arrayBuffer, pdf, batch, pause, batch, then embedding and
\* answer of question 1, then of question 2.
C15_Witness ==
  \E r \in Requests :
    /\ Done(r) /\ Len(calls[r]) = 10
    /\ [k \in 1..10 |-> calls[r][k].svc] =
         <<"fetch", "arrayBuffer", "pdf", "embed", "pause", "embed",
           "embed", "synth", "embed", "synth">>
    /\ [k \in 1..10 |-> calls[r][k].q] = <<0, 0, 0, 0, 0, 0, 1, 1, 2, 2>>
    /\ response[r][1].status = 200

(***************************************************************************)
(* Two requests handled concurrently: their steps interleave at the awaits *)
(* of POST in every order.                                                 *)
(***************************************************************************)
ConcBodies ==
  {Body("null", Undefined, Undefined)}
  \cup {Body("object", Str(<<"u">>), Arr(l)) :
          l \in SeqsUpTo({Str(<<"q">>), Str(<<" ">>)}, MaxConcQuestions)}

InitConc ==
  /\ pc = [r \in {1, 2} |-> "body"]
  /\ input \in [{1, 2} -> ConcBodies]
  /\ fullText = [r \in {1, 2} |-> ""]
  /\ chunks = [r \in {1, 2} |-> <<>>]
  /\ chunkEmbeddings = [r \in {1, 2} |-> <<>>]
  /\ results = [r \in {1, 2} |-> <<>>]
  /\ qi = [r \in {1, 2} |-> 0]
  /\ emb = [r \in {1, 2} |-> [q |-> 0, i |-> 0, embeddings |-> <<>>]]
  /\ response = [r \in {1, 2} |-> <<>>]
  /\ calls = [r \in {1, 2} |-> <<>>]
  /\ fnArgs = NoCall
  /\ fnRet = <<>>

SpecConc == InitConc /\ [][Next]_vars

(***************************************************************************)
(* Properties of concurrent requests (SpecConc).                           *)
(***************************************************************************)
\* The state of request r: its locals, its position and its history.
Local(r) ==
  <<pc[r], input[r], fullText[r], chunks[r], chunkEmbeddings[r], results[r], qi[r],
    emb[r], response[r], calls[r]>>

\* The vectors the service returned for the batches of the chunks, from call k
\* of the history on, in order.
RECURSIVE CorpusVectorsFrom(_, _)
CorpusVectorsFrom(log, k) ==
  IF k > Len(log) THEN <<>>
  ELSE (IF log[k].svc = "embed" /\ log[k].q = 0 /\ log[k].reply \notin {"pending", "throw"}
        THEN ReplyVectors(log[k].reply, log[k].from, log[k].n)
        ELSE <<>>) \o CorpusVectorsFrom(log, k + 1)

\* The response a request with this body and this history of replies ends with
\* when it runs alone.
ResponseAlone(body, log) ==
  IF Validate(body) # <<>> THEN Validate(body)[1]
  ELSE LET last == log[Len(log)]
           answered(i) == {k \in DOMAIN log : log[k].svc = "synth" /\ log[k].q = i
                                               /\ log[k].reply \in Answers}
           result(i) ==
             IF BlankQuestion(body.questions.items[i]) THEN EmptyQuestion
             ELSE IF answered(i) # {} THEN <<log[CHOOSE k \in answered(i) : TRUE].reply>>
             ELSE FailedQuestion(body.questions.items[i])
       IN  CASE last.svc = "fetch" /\ last.reply = "network error" -> FetchFailed("fetch failed")
             [] last.svc = "fetch" /\ last.reply # "network error" ->
                  FetchFailed("Invalid content type. Expected PDF document.")
             [] last.svc = "text" -> FetchFailed("Failed to download document.")
             [] last.svc = "arrayBuffer" /\ last.reply = "throws" -> FetchFailed("terminated")
             [] last.svc = "arrayBuffer" /\ last.reply # "throws" ->
                  FetchFailed("Received empty PDF buffer")
             [] last.svc = "pdf" /\ last.reply = "throws" -> FetchFailed("Invalid PDF structure")
             [] last.svc = "pdf" /\ last.reply # "throws" ->
                  FetchFailed("PDF parsing succeeded but extracted text is empty")
             [] last.svc = "embed" /\ last.q = 0 /\ last.reply = "throw" ->
                  ErrorResponse(500, <<"Failed to generate document embeddings.">>)
             [] OTHER -> AnswersResponse([i \in 1..Len(body.questions.items) |-> result(i)])

\* What request r holds is what its own body and its own replies make of it.
OwnOutcome(r) ==
  /\ Done(r) => response[r] = <<ResponseAlone(input[r], calls[r])>>
  /\ CorpusEmbedded(r) => chunkEmbeddings[r] = CorpusVectorsFrom(calls[r], 1)
  /\ Len(results[r]) <= Len(Questions(r))
  /\ Len(results[r]) <= Len(Questions(r)) =>
       \A i \in 1..Len(results[r]) : results[r][i] = ExpectedResult(r, i)
  /\ chunks[r] # <<>> =>
       \E d \in 1..Len(Extracted) :
         fullText[r] = Extracted[d].fullText /\ chunks[r] = Extracted[d].chunked.val

\* C16: with two requests interleaved, a step changes the state of one request
\* alone, and in every state the chunks, the corpus vectors, the results and the
\* response of a request are what its own body and the replies to its own calls
\* make of them, as when it runs alone.
C16_RequestsIsolated ==
  /\ [](\A r \in Requests : OwnOutcome(r))
  /\ [][\E r \in Requests : \A s \in Requests \ {r} : Local(s)' = Local(s)]_vars

\* C16 witness: both requests have finished with an answers list, the first
\* with an answer and the second with an error string, on documents of
\* different numbers of chunks.
C16_Witness ==
  /\ Done(1) /\ Done(2)
  /\ response[1][1].kind = "answers" /\ response[2][1].kind = "answers"
  /\ response[1][1].answers = << <<"A1">> >>
  /\ response[2][1].answers = <<FailedQuestion(Str(<<"q">>))>>
  /\ Len(chunks[1]) # Len(chunks[2])

(***************************************************************************)
(* Properties of the embedding of the chunks within a request (Spec).      *)
(***************************************************************************)
\* The positions in the history of r of its calls to the embedding service.
EmbedCallsOf(r) == {k \in DOMAIN calls[r] : calls[r][k].svc = "embed"}

\* The questions of r that are strings and not blank.
AskedQuestions(r) ==
  {i \in 1..Len(Questions(r)) :
     Questions(r)[i].t = "string" /\ ~AllWhitespace(Questions(r)[i].v)}

\* Request r ended with the answers list and no call to the embedding service
\* threw.
AnsweredWithoutEmbeddingFailure(r) ==
  /\ Done(r) /\ response[r][1].kind = "answers"
  /\ \A k \in EmbedCallsOf(r) : calls[r][k].reply # "throw"

\* C17: a request with C chunks and Q non-blank string questions that reaches
\* the answers response with no embedding failure has made ceil(C / 10) + Q
\* calls to the embedding service: the first ceil(C / 10) carry the chunks, all
\* of them once, and each later one carries one question; and once the chunks
\* are set and once their vectors are set, no step changes them.
C17_CorpusEmbeddedOnce ==
  /\ [](\A r \in Requests :
          AnsweredWithoutEmbeddingFailure(r) =>
            LET corpus == {k \in EmbedCallsOf(r) : calls[r][k].q = 0}
            IN  /\ Cardinality(EmbedCallsOf(r)) =
                     Batches(Len(chunks[r])) + Cardinality(AskedQuestions(r))
                /\ Cardinality(corpus) = Batches(Len(chunks[r]))
                /\ \A k \in corpus :
                     /\ calls[r][k].n = Min(BatchSize, Len(chunks[r]) - calls[r][k].from)
                     /\ \E j \in 0..(Batches(Len(chunks[r])) - 1) :
                          calls[r][k].from = j * BatchSize
                /\ \A k \in corpus, j \in corpus : k # j => calls[r][k].from # calls[r][j].from
                /\ \A k \in corpus, j \in EmbedCallsOf(r) \ corpus : k < j
                /\ \A j \in EmbedCallsOf(r) \ corpus :
                     /\ calls[r][j].n = 1 /\ calls[r][j].from = 0
                     /\ calls[r][j].q \in AskedQuestions(r)
                /\ \A i \in AskedQuestions(r) : Cardinality(CallsFor(r, "embed", i)) = 1)
  /\ [][\A r \in Requests :
          /\ chunks[r] # <<>> => chunks'[r] = chunks[r]
          /\ (CorpusEmbedded(r) \/ qi[r] > 0) => chunkEmbeddings'[r] = chunkEmbeddings[r]]_vars

\* C17 witness: 11 chunks and three questions, one of them blank: two calls for
\* the chunks and two for the questions.
C17_Witness ==
  \E r \in Requests :
    /\ AnsweredWithoutEmbeddingFailure(r)
    /\ Len(chunks[r]) = BatchSize + 1
    /\ Len(Questions(r)) = 3 /\ Cardinality(AskedQuestions(r)) = 2
    /\ Cardinality(EmbedCallsOf(r)) = 4
    /\ Len(chunkEmbeddings[r]) = BatchSize + 1

(***************************************************************************)
(* The requests under the assumption that every external call (the reading *)
(* of the body, the fetch, the parsing, each embedding call, each pause,   *)
(* each askOpenRouter call) returns or fails in the end: a request that is *)
(* suspended at an await takes its next step.                              *)
(***************************************************************************)
SpecLive == Init /\ [][Next]_vars /\ WF_vars(Next)

\* The per-question loop and the batch loop stay within their bounds.
LoopsBounded ==
  \A r \in Requests :
    /\ qi[r] <= Len(Questions(r)) + 1
    /\ Len(results[r]) <= Len(Questions(r))
    /\ emb[r].i < Len(EmbTexts(r)) \/ EmbTexts(r) = <<>>
    /\ Cardinality({k \in EmbedCallsOf(r) : calls[r][k].q = 0}) <= Batches(Len(chunks[r]))
    /\ \A i \in 1..Len(Questions(r)) : Cardinality(CallsFor(r, "embed", i)) <= 1

\* Request r has ended with one response: a 400 error, a 500 error or a 200
\* answers list.
Terminated(r) ==
  /\ Done(r)
  /\ Len(response[r]) = 1
  /\ \/ response[r][1].status \in {400, 500} /\ response[r][1].kind = "error"
     \/ response[r][1].status = 200 /\ response[r][1].kind = "answers"

\* C18: when every external call returns or fails in the end, every request
\* ends with exactly one response, a 400 error, a 500 error or a 200 answers
\* list, and stays ended with it; the loop over the questions and the loop over
\* the batches never go beyond N questions and ceil(n / 10) batches.
C18_RequestTerminates ==
  /\ <>[](\A r \in Requests : Terminated(r))
  /\ [](LoopsBounded)
  /\ [][\A r \in Requests : Done(r) => (pc'[r] = pc[r] /\ response'[r] = response[r])]_vars

\* C18 witness: a request of three questions on a document of two batches has
\* ended with the answers list.
C18_Witness ==
  \E r \in Requests :
    /\ Terminated(r)
    /\ response[r][1].status = 200
    /\ Len(Questions(r)) = 3 /\ Len(response[r][1].answers) = 3
    /\ Len(chunks[r]) = BatchSize + 1
    /\ Cardinality({k \in DOMAIN calls[r] : calls[r][k].svc = "pause"}) = 1

(***************************************************************************)
(* Properties of the chunking stage of a request (Spec).                   *)
(***************************************************************************)
\* The extract stage of r succeeded: pdf(...) returned a text that is not blank.
ExtractSucceeded(r) ==
  \E k \in DOMAIN calls[r] : calls[r][k].svc = "pdf" /\ calls[r][k].reply = "text"

\* Every text of at most MaxTextLen characters that is not blank passes the
\* chunking stage with at least one chunk.
NonBlankTextsChunk ==
  \A text \in SeqsUpTo(Chars, MaxTextLen) :
    ~AllWhitespace(text) => (ChunkStage(text).ok /\ Len(ChunkStage(text).val) >= 1)

\* C19: no request ends with the 500 response of the chunking stage: when the
\* extract stage succeeded the text is not blank, chunkText returned at least
\* one chunk, and getEmbeddings was called with the chunks, never with an empty
\* list.
C19_ChunkStageNeverFails ==
  /\ NonBlankTextsChunk
  /\ \A r \in Requests :
       /\ Done(r) =>
            response[r][1].error # <<"Failed to process the document content.">>
       /\ ExtractSucceeded(r) =>
            /\ \E d \in 1..Len(Extracted) :
                 /\ fullText[r] = Extracted[d].fullText
                 /\ ~AllWhitespace(DocTexts[d])
                 /\ Extracted[d].chunked.ok
                 /\ chunks[r] = Extracted[d].chunked.val
            /\ Len(chunks[r]) >= 1
            /\ \E k \in DOMAIN calls[r] :
                 /\ calls[r][k].svc = "embed" /\ calls[r][k].q = 0 /\ calls[r][k].from = 0
                 /\ calls[r][k].n >= 1

\* C19 witness: a text of a newline and two words was extracted and chunked
\* into one chunk, which is being embedded.
C19_Witness ==
  \E r \in Requests :
    /\ ExtractSucceeded(r)
    /\ fullText[r] = Text(DocTexts[2])
    /\ Len(chunks[r]) = 1
    /\ pc[r] = "embedding" /\ emb[r].q = 0

(***************************************************************************)
(* Properties of the ranking step of a question (Spec).                    *)
(***************************************************************************)
\* Call k of r is the embedding call of a question and has returned.
QuestionEmbedded(r, k) ==
  /\ calls[r][k].svc = "embed" /\ calls[r][k].q > 0
  /\ calls[r][k].reply \notin {"pending", "throw"}

\* The ranking that follows call k throws: the vector of the question has
\* magnitude zero or another dimension than the vectors of the chunks, or the
\* service returned another number of vectors than there are chunks.
RankingFails(r, k) ==
  \/ calls[r][k].reply \in {"zero", "dim3"}
  \/ Len(chunkEmbeddings[r]) # Len(chunks[r])

\* C20: when the ranking of question i throws, the request goes on: question i
\* gets its error string, askOpenRouter is not called for it, and the request
\* ends with status 200 and an answers list of one entry for each question;
\* when the ranking returns, askOpenRouter is called for the question with the
\* top min(3, number of chunks) chunks.
C20_RankingFailureIsolated ==
  \A r \in Requests : \A k \in DOMAIN calls[r] :
    QuestionEmbedded(r, k) =>
      LET i == calls[r][k].q
      IN  IF RankingFails(r, k)
          THEN /\ Len(results[r]) >= i
               /\ results[r][i] = FailedQuestion(Questions(r)[i])
               /\ CallsFor(r, "synth", i) = {}
               /\ Done(r) =>
                    /\ response[r][1].status = 200
                    /\ response[r][1].kind = "answers"
                    /\ Len(response[r][1].answers) = Len(Questions(r))
                    /\ response[r][1].answers[i] = FailedQuestion(Questions(r)[i])
               /\ ~Done(r) => response[r] = <<>>
          ELSE /\ k < Len(calls[r])
               /\ calls[r][k + 1].svc = "synth" /\ calls[r][k + 1].q = i
               /\ calls[r][k + 1].n = Min(DefaultTopK, Len(chunks[r]))

\* C20 witness: a finished request of three questions: the vector of the first
\* has magnitude zero, that of the second three components, and the third is
\* answered.
C20_Witness ==
  \E r \in Requests :
    /\ Done(r) /\ Len(Questions(r)) = 3
    /\ Len(chunkEmbeddings[r]) = Len(chunks[r])
    /\ \E k \in CallsFor(r, "embed", 1) : calls[r][k].reply = "zero"
    /\ \E k \in CallsFor(r, "embed", 2) : calls[r][k].reply = "dim3"
    /\ \E k \in CallsFor(r, "synth", 3) : calls[r][k].reply \in Answers
    /\ response[r][1].status = 200
    /\ response[r][1].answers[1] = FailedQuestion(Questions(r)[1])
    /\ response[r][1].answers[2] = FailedQuestion(Questions(r)[2])

====
